---- MODULE Spec2Model ----
(***************************************************************************)
(* Ingestion, checkpointing and store persistence of AniFind-API.         *)
(*                                                                         *)
(* Three ingestion scripts build the fingerprint store:                    *)
(*   createPhash.py   per unit: extract, add, write index, write metadata, *)
(*                    touch the checkpoint (inside try/except)             *)
(*   indexador.py     per unit: extract, touch the checkpoint; one write   *)
(*                    of index and metadata after the loop                 *)
(*   generate_data.py a process pool; each worker writes the unit's own    *)
(*                    phashes_/metadata_ files, which double as the        *)
(*                    checkpoint; merge_individual_data.py consolidates    *)
(* A record (a fingerprint with its provenance) is the pair <<u, i>> of    *)
(* the unit and the frame it was sampled from.  A file that does not exist *)
(* and an empty one are both the empty sequence.  A unit has a path under *)
(* the corpus root; the scripts derive its checkpoint key from the path.   *)
(***************************************************************************)
EXTENDS Integers, Sequences, FiniteSets, TLC

\* ---------------------------------------------------------------- bounds
NumUnits == 2
FramesPerUnit == 3
MaxRuns == 2
MaxCrashes == 1
MaxIOErrors == 1
MaxMerges == 2
MaxSeconds == 3
MaxK == 3
NumCallers == 2
MaxJsonErrors == 1
HexLen == 2
MaxFrames == 2
MaxThreshold == 2

\* ------------------------------------------------------ program constants
MAX_PARALLEL_VIDEOS == 4
HASH_BITS == 64
MINIMUM_SIMILARITY == 75
NO_DISTANCE == 2147483647
NO_ID == -1

Units == 1..NumUnits
Frames == 1..FramesPerUnit

Variants == {"createPhash", "indexador", "generate"}

\* What the decoder boundary does with a unit:
\*   ok         opens, every frame decodes, the name matches a pattern
\*   nopattern  as ok, but no naming pattern matches the file name
\*   noopen     the container cannot be opened
\*   zerodur    opens, zero duration: the decoder yields no frame
\*   bad1       the first frame fails to decode
\*   bad2       the second frame fails to decode, the others are fine
Kinds == {"ok", "nopattern", "noopen", "zerodur", "bad1", "bad2"}

VARIABLES
    variant,        \* which ingestion script the runs execute
    kind,           \* Units -> Kinds: the corpus
    path,           \* Units -> Paths: where each unit lies under the root
    diskIndex,      \* indexes/global_index.faiss: the vectors, in id order
    diskMeta,       \* indexes/metadata.pkl: the metadata list
    checkpoints,    \* the units with a checkpoints/<key>.done file
    hashFile,       \* database/individual/phashes_<base>.npy of the unit's base
    metaFile,       \* database/individual/metadata_<base>.pkl of the unit's base
    phashes,        \* database/phashes.npy (merge output)
    metadataPkl,    \* database/metadata.pkl (merge output)
    pc,             \* position of the ingestion main()
    todo,           \* units the for loop still has to visit
    index,          \* createPhash main: index (in memory)
    metadata_all,   \* main: metadata_all (in memory)
    vectors_all,    \* indexador main: vectors_all (in memory)
    wpc,            \* generate_data: Units -> state of the unit's future
    wvec,           \* generate_data: Units -> vectors local to the worker
    mpc,            \* position of merge_individual_data.py
    combined,       \* merge: combined_hashes / combined_metadata (same order)
    rdPc,           \* position of a searchPhash.search(use_cached=False)
    rdIndex,        \* the index that search read
    rdMeta,         \* the metadata that search read
    runNo,          \* ingestion runs started so far
    crashes,        \* process kills so far
    ioErrors,       \* write errors raised so far
    merges,         \* merge runs started so far
    doneAtStart,    \* history: the units marked when the current run began
    storeAtStart,   \* history: the persisted store when the current run began
    extracted,      \* history: the units the current run extracted frames of
    failedUnits,    \* history: the units whose processing raised in this run
    interrupted,    \* history: some run so far was killed
    sampler,        \* which code samples the unit: process_video or the service
    fps,            \* cap.get(cv2.CAP_PROP_FPS) of the unit sampled
    total_frames,   \* cap.get(cv2.CAP_PROP_FRAME_COUNT) of the unit sampled
    frame_index,    \* process_video: frame_index of the read loop
    current_second, \* extract_frames_from_video: current_second
    records,        \* the (second, position) records emitted so far
    smPc,           \* position of the sampling of the unit
    app,            \* which program answers the queries
    pix,            \* frame -> the fingerprint ingestion computed of it
    qpix,           \* frame -> the fingerprint the API computes of it
    api_index,      \* main: index; service: self.index; searchPhash: _cached_index
    api_metadata,   \* main: metadata; self.metadata; _cached_metadata
    data_loaded,    \* service: self._data_loaded; searchPhash: _is_loaded
    ldPc,           \* position of the load of the store
    loop,           \* what the event loop of the server is running
    qPc,            \* position of the request handler
    qcur,           \* the query in hand, or answered last: <<frame, k>>
    results,        \* what the last request returned
    upload,         \* what the last request to the API carried
    json_file,      \* FrameExtractorService: the file frames_data.json
    stored_before,  \* the extractions the file held before the calls
    epc,            \* caller -> position in extract_frames_from_video
    existing_data,  \* caller -> _save_to_json: existing_data["extractions"]
    returned,       \* caller -> what the call returned
    appended,       \* caller -> its json.dump has written its extraction
    json_errors,    \* I/O errors on the file so far
    frame_hashes,   \* the hex hashes ph, dh, ah of a frame of the store
    query_hashes,   \* the hex hashes ph, dh, ah of the query image
    outcome,        \* what the last operation on the faiss index came to
    database,       \* FrameSearchService: the hashes of the frames of the database
    search_hashes,  \* the hash of the search image, as its hex string
    threshold,      \* the threshold of the search
    found           \* what search_similar_frame returned

disk == <<diskIndex, diskMeta, checkpoints>>
perUnit == <<hashFile, metaFile>>
merged == <<phashes, metadataPkl>>
mainMem == <<pc, todo, index, metadata_all, vectors_all>>
workers == <<wpc, wvec>>
mergeVars == <<mpc, combined, merges>>
reader == <<rdPc, rdIndex, rdMeta>>
input == <<variant, kind, path>>
history == <<runNo, doneAtStart, storeAtStart, extracted, failedUnits>>
faults == <<crashes, ioErrors, interrupted>>

sampling == <<sampler, fps, total_frames, frame_index, current_second,
              records, smPc>>

\* the scripts that build the store, and what this module models besides
ingestion == <<input, disk, perUnit, merged, mainMem, workers, mergeVars,
               reader, history, faults>>
serving == <<app, pix, qpix, api_index, api_metadata, data_loaded, ldPc,
             loop, qPc, qcur, results, upload>>

\* the services of src/app that keep their own data
extractor == <<json_file, stored_before, epc, existing_data, returned,
               appended, json_errors>>
vectors == <<frame_hashes, query_hashes, outcome>>
framesearch == <<database, search_hashes, threshold, found>>
others == <<extractor, vectors, framesearch>>
elsewhere == <<sampling, serving, others>>

vars == <<ingestion, elsewhere>>

\* ---------------------------------------------------------------- helpers
RECURSIVE SeqOfFrames(_, _, _)
\* <<u, lo>>, <<u, lo+1>>, ..., <<u, hi>>
SeqOfFrames(u, lo, hi) ==
    IF lo > hi THEN <<>> ELSE <<<<u, lo>>>> \o SeqOfFrames(u, lo + 1, hi)

Range(s) == {s[i] : i \in DOMAIN s}

RECURSIVE UnitOrder(_)
\* rglob order over the corpus: the units in a fixed order
UnitOrder(n) == IF n = 0 THEN <<>> ELSE Append(UnitOrder(n - 1), n)

Count(s, r) == Cardinality({i \in DOMAIN s : s[i] = r})

\* The frames of u that decode: every sample point but a failed one.
GoodFrames(u) ==
    CASE kind[u] \in {"ok", "nopattern"} -> {<<u, i>> : i \in Frames}
      [] kind[u] = "bad1" -> {<<u, i>> : i \in Frames \ {1}}
      [] kind[u] = "bad2" -> {<<u, i>> : i \in Frames \ {2}}
      [] OTHER -> {}

Raise == [raised |-> TRUE, recs |-> <<>>]
Return(recs) == [raised |-> FALSE, recs |-> recs]

\* createPhash.extract_hash_vectors: get_video_info raises when the container
\* does not open; the read loop breaks at the first frame that fails; with
\* no frame appended on either attempt (CUDA, then CPU) it raises, otherwise
\* it returns what was read before the break.  A name no pattern matches gets
\* the fallback provenance and is read like any other.
extract_hash_vectors(u) ==
    CASE kind[u] \in {"ok", "nopattern"} -> Return(SeqOfFrames(u, 1, FramesPerUnit))
      [] kind[u] = "bad2" -> Return(SeqOfFrames(u, 1, 1))
      [] OTHER -> Raise

\* indexador.extract_phashes: no try around the frame loop, so a frame that
\* fails to decode raises out of the function, as does a container that does
\* not open; a stream without frames returns two empty lists.
extract_phashes(u) ==
    CASE kind[u] \in {"ok", "nopattern"} -> Return(SeqOfFrames(u, 1, FramesPerUnit))
      [] kind[u] = "zerodur" -> Return(<<>>)
      [] OTHER -> Raise

\* ------------------------------------------------------------- unit paths
\* A text is a sequence of characters.  A unit's path relative to the corpus
\* root is <dir>/<title> S<season>E<episode><ext>, or without <dir>/ for a
\* unit that lies in the root itself.
Dirs == {<<>>, <<"A">>}
Titles == {<<"B">>, <<"A", " ", "B">>, <<"A", "_", "B">>, <<"A", "_", "_", "B">>}
SeasonTexts == {<<"1">>, <<"0", "1">>}
DigitChars == <<"0", "1", "2", "3", "4", "5", "6", "7", "8", "9">>

Paths ==
    [dir : Dirs, title : Titles, season : SeasonTexts, episode : {<<"1">>},
     ext : {<<".mkv">>}]

\* The corpus the ingestion runs of Spec read: unit u is episode u of one
\* season of one title, all in the root.
DefaultPath(u) ==
    [dir |-> <<>>, title |-> <<"B">>, season |-> <<"0", "1">>,
     episode |-> <<DigitChars[u + 1]>>, ext |-> <<".mkv">>]

\* os.path.splitext(os.path.basename(filepath))[0]
Stem(p) == p.title \o <<" ", "S">> \o p.season \o <<"E">> \o p.episode

\* file.name, os.path.basename(filepath)
FileName(p) == Stem(p) \o p.ext

\* relative_path.as_posix()
as_posix(p) == IF p.dir = <<>> THEN FileName(p) ELSE p.dir \o <<"/">> \o FileName(p)

RECURSIVE replace(_, _, _)
\* str.replace(old, new) for a one-character old
replace(t, old, new) ==
    IF t = <<>> THEN <<>>
    ELSE (IF Head(t) = old THEN new ELSE <<Head(t)>>) \o replace(Tail(t), old, new)

RECURSIVE lstrip(_)
lstrip(t) == IF t # <<>> /\ Head(t) = " " THEN lstrip(Tail(t)) ELSE t

RECURSIVE rstrip(_)
rstrip(t) ==
    IF t # <<>> /\ t[Len(t)] = " " THEN rstrip(SubSeq(t, 1, Len(t) - 1)) ELSE t

\* str.strip()
strip(t) == rstrip(lstrip(t))

\* \w of the re module: letters, digits and the underscore
IsWordChar(c) == c \notin {" ", "-", "/"}

RECURSIVE SkipNonWord(_)
SkipNonWord(t) ==
    IF t # <<>> /\ ~IsWordChar(Head(t)) THEN SkipNonWord(Tail(t)) ELSE t

RECURSIVE re_sub_W(_)
\* re.sub(r'\W+', '_', t): every run of non-word characters becomes one "_"
re_sub_W(t) ==
    IF t = <<>> THEN <<>>
    ELSE IF IsWordChar(Head(t)) THEN <<Head(t)>> \o re_sub_W(Tail(t))
    ELSE <<"_">> \o re_sub_W(SkipNonWord(Tail(t)))

DigitValue(c) == CHOOSE d \in 0..9 : DigitChars[d + 1] = c

RECURSIVE int(_)
\* int(text) of a text of decimal digits
int(t) == IF t = <<>> THEN 0 ELSE 10 * int(SubSeq(t, 1, Len(t) - 1)) + DigitValue(t[Len(t)])

\* f"{n:02d}" for 0 <= n < 100
Format02d(n) == <<DigitChars[(n \div 10) + 1], DigitChars[(n % 10) + 1]>>

\* generate_data.parse_video_path: the first pattern, (.+?)[_\s-][Ss](\d+)[Ee](\d+),
\* matches the stem with the title as its first group.
parse_video_path(p) ==
    [anime |-> replace(strip(p.title), "_", <<" ">>),
     season |-> int(p.season), episode |-> int(p.episode)]

\* generate_data.process_video, lines 97-98: safe_name and filename_base
filename_base(p) ==
    LET m == parse_video_path(p)
    IN  re_sub_W(m.anime) \o <<"_", "S">> \o Format02d(m.season)
                          \o <<"E">> \o Format02d(m.episode)

\* The name under which a script records that unit u is done: createPhash
\* passes file.name, indexador the relative path with every "/" replaced by
\* "__", generate_data looks for the per-unit files named by filename_base.
Key(u) ==
    CASE variant = "createPhash" -> FileName(path[u])
      [] variant = "indexador" -> replace(as_posix(path[u]), "/", <<"_", "_">>)
      [] OTHER -> filename_base(path[u])

\* The units whose checkpoint (or per-unit files) bear the same name as u's
SameKey(u) == {v \in Units : Key(v) = Key(u)}

is_processed_never(u) == FALSE

\* is_processed: the .done file named by the unit's key exists; checkpoints
\* holds the units that touched theirs.
is_processed(u) == SameKey(u) \cap checkpoints # {}

Idle == {"idle", "done", "aborted", "stopped"}

\* -------------------------------------------------------------------- Init
\* No ingestion process is running, none has run.
NoRun ==
    /\ checkpoints = {}
    /\ hashFile = [u \in Units |-> <<>>] /\ metaFile = [u \in Units |-> <<>>]
    /\ pc = "idle" /\ todo = <<>>
    /\ index = <<>> /\ metadata_all = <<>> /\ vectors_all = <<>>
    /\ wpc = [u \in Units |-> "none"] /\ wvec = [u \in Units |-> <<>>]
    /\ mpc = "idle" /\ combined = <<>> /\ merges = 0
    /\ rdPc = "idle" /\ rdIndex = <<>> /\ rdMeta = <<>>
    /\ runNo = 0 /\ crashes = 0 /\ ioErrors = 0 /\ interrupted = FALSE
    /\ doneAtStart = {} /\ storeAtStart = <<<<>>, <<>>>>
    /\ extracted = {} /\ failedUnits = {}

\* Nothing ingested yet, no process running.
Fresh ==
    /\ diskIndex = <<>> /\ diskMeta = <<>>
    /\ phashes = <<>> /\ metadataPkl = <<>>
    /\ NoRun

\* No unit is being sampled frame by frame.
NotSampling ==
    /\ sampler = "generate_data" /\ fps = 1 /\ total_frames = 0
    /\ frame_index = 0 /\ current_second = 0 /\ records = <<>>
    /\ smPc = "idle"

\* Python objects: an index is None or its entries in the order they were
\* added; a dict is None or its items with the kind of its keys; a response
\* is an error or the list of the results.  Ids and list positions count
\* from 1 here, from 0 in the code.
NoIndex == [none |-> TRUE, entries |-> <<>>]
IndexOf(entries) == [none |-> FALSE, entries |-> entries]
NoMetadata == [keys |-> "none", d |-> <<>>]
NoResponse == [status |-> "none", items |-> <<>>]
ErrorResponse == [status |-> "error", items |-> <<>>]
Response(items) == [status |-> "ok", items |-> items]

\* A fingerprint is the set of the bit positions, of HASH_BITS, that are 1.
Fingerprints == {{}, {1}, 1..20}

\* The frames a store served by the API may hold
StoreFrames == {<<1, i>> : i \in Frames}

\* The other services have done nothing.
FileAbsent == [state |-> "absent", extractions |-> <<>>]
FileWith(extractions) == [state |-> "whole", extractions |-> extractions]
FileTruncated == [state |-> "truncated", extractions |-> <<>>]

\* The callers of FrameExtractorService.extract_frames_from_video, each a
\* process or thread of its own
Callers == 1..NumCallers

NotExtracting ==
    /\ json_file = FileAbsent /\ stored_before = <<>>
    /\ epc = [c \in Callers |-> "idle"]
    /\ existing_data = [c \in Callers |-> <<>>]
    /\ returned = [c \in Callers |-> "none"]
    /\ appended = [c \in Callers |-> FALSE]
    /\ json_errors = 0

\* imagehash: a hash of hash_size 8 has 64 bits; it is modelled as the set
\* of the positions of its 1 bits.
NoHashes == [ph |-> {}, dh |-> {}, ah |-> {}]
NoOutcome == [op |-> "none", status |-> "none", dist |-> 0, similarity_x64 |-> 0,
              families |-> {}]

NotComparing ==
    /\ frame_hashes = NoHashes /\ query_hashes = NoHashes
    /\ outcome = NoOutcome

NoResult == [success |-> "none", by |-> "none", position |-> 0, distance |-> 0]

NotSearchingFrames ==
    /\ database = <<>> /\ search_hashes = <<>> /\ threshold = 0
    /\ found = NoResult

OthersIdle == NotExtracting /\ NotComparing /\ NotSearchingFrames

\* No API process has been started.
NotServing ==
    /\ app = "main"
    /\ pix = [f \in StoreFrames |-> {}] /\ qpix = [f \in StoreFrames |-> {}]
    /\ api_index = NoIndex /\ api_metadata = NoMetadata
    /\ data_loaded = FALSE
    /\ ldPc = "unloaded" /\ loop = "free" /\ qPc = "idle" /\ qcur = <<>>
    /\ results = NoResponse /\ upload = "none"

Init ==
    /\ variant \in Variants
    /\ kind \in [Units -> Kinds]
    /\ path = [u \in Units |-> DefaultPath(u)]
    /\ Fresh
    /\ NotSampling
    /\ OthersIdle
    /\ NotServing

\* ------------------------------------------------------------- createPhash
\* main, lines 149-157: load what the store holds, then enter the loop.
CP_Start ==
    /\ variant = "createPhash" /\ pc \in Idle /\ runNo < MaxRuns
    /\ metadata_all' = diskMeta
    /\ index' = diskIndex
    /\ todo' = UnitOrder(NumUnits)
    /\ pc' = "loop"
    /\ runNo' = runNo + 1
    /\ doneAtStart' = checkpoints
    /\ storeAtStart' = <<diskIndex, diskMeta>>
    /\ extracted' = {} /\ failedUnits' = {}
    /\ UNCHANGED <<input, disk, perUnit, merged, vectors_all, workers,
                   mergeVars, reader, faults>>
    /\ UNCHANGED elsewhere

\* lines 162-164
CP_Skip ==
    /\ variant = "createPhash" /\ pc = "loop" /\ todo # <<>>
    /\ is_processed(Head(todo))
    /\ todo' = Tail(todo)
    /\ UNCHANGED <<input, disk, perUnit, merged, pc, index, metadata_all,
                   vectors_all, workers, mergeVars, reader, history, faults>>
    /\ UNCHANGED elsewhere

\* lines 167-171 (and 180-181 when the extraction raises)
CP_Extract ==
    /\ variant = "createPhash" /\ pc = "loop" /\ todo # <<>>
    /\ ~is_processed(Head(todo))
    /\ LET u == Head(todo)
           r == extract_hash_vectors(u)
       IN  IF r.raised
           THEN /\ failedUnits' = failedUnits \cup {u}
                /\ extracted' = extracted \cup {u}
                /\ todo' = Tail(todo)
                /\ UNCHANGED <<pc, index, metadata_all>>
           ELSE /\ index' = index \o r.recs
                /\ metadata_all' = metadata_all \o r.recs
                /\ extracted' = extracted \cup {u}
                /\ pc' = "write_index"
                /\ UNCHANGED <<todo, failedUnits>>
    /\ UNCHANGED <<input, disk, perUnit, merged, vectors_all, workers,
                   mergeVars, reader, runNo, doneAtStart, storeAtStart, faults>>
    /\ UNCHANGED elsewhere

\* line 173
CP_WriteIndex ==
    /\ variant = "createPhash" /\ pc = "write_index"
    /\ diskIndex' = index
    /\ pc' = "write_meta"
    /\ UNCHANGED <<input, diskMeta, checkpoints, perUnit, merged, todo, index,
                   metadata_all, vectors_all, workers, mergeVars, reader,
                   history, faults>>
    /\ UNCHANGED elsewhere

\* lines 174-175
CP_WriteMeta ==
    /\ variant = "createPhash" /\ pc = "write_meta"
    /\ diskMeta' = metadata_all
    /\ pc' = "mark"
    /\ UNCHANGED <<input, diskIndex, checkpoints, perUnit, merged, todo, index,
                   metadata_all, vectors_all, workers, mergeVars, reader,
                   history, faults>>
    /\ UNCHANGED elsewhere

\* line 177
CP_Mark ==
    /\ variant = "createPhash" /\ pc = "mark"
    /\ checkpoints' = checkpoints \cup {Head(todo)}
    /\ todo' = Tail(todo)
    /\ pc' = "loop"
    /\ UNCHANGED <<input, diskIndex, diskMeta, perUnit, merged, index,
                   metadata_all, vectors_all, workers, mergeVars, reader,
                   history, faults>>
    /\ UNCHANGED elsewhere

\* lines 173-175 raising (the disk is full, the file cannot be opened), then
\* 180-181: the file is left as it was, the unit is reported, the loop goes on
\* with index and metadata_all as they are.
CP_WriteError ==
    /\ variant = "createPhash" /\ pc \in {"write_index", "write_meta"}
    /\ ioErrors < MaxIOErrors
    /\ ioErrors' = ioErrors + 1
    /\ failedUnits' = failedUnits \cup {Head(todo)}
    /\ todo' = Tail(todo)
    /\ pc' = "loop"
    /\ UNCHANGED <<input, disk, perUnit, merged, index, metadata_all,
                   vectors_all, workers, mergeVars, reader, runNo, doneAtStart,
                   storeAtStart, extracted, crashes, interrupted>>
    /\ UNCHANGED elsewhere

\* line 183
CP_Finish ==
    /\ variant = "createPhash" /\ pc = "loop" /\ todo = <<>>
    /\ pc' = "done"
    /\ UNCHANGED <<input, disk, perUnit, merged, todo, index, metadata_all,
                   vectors_all, workers, mergeVars, reader, history, faults>>
    /\ UNCHANGED elsewhere

CPNext ==
    \/ CP_Start \/ CP_Skip \/ CP_Extract \/ CP_WriteIndex \/ CP_WriteMeta
    \/ CP_Mark \/ CP_WriteError \/ CP_Finish

\* --------------------------------------------------------------- indexador
\* main, lines 106-107
IX_Start ==
    /\ variant = "indexador" /\ pc \in Idle /\ runNo < MaxRuns
    /\ vectors_all' = <<>> /\ metadata_all' = <<>>
    /\ todo' = UnitOrder(NumUnits)
    /\ pc' = "loop"
    /\ runNo' = runNo + 1
    /\ doneAtStart' = checkpoints
    /\ storeAtStart' = <<diskIndex, diskMeta>>
    /\ extracted' = {} /\ failedUnits' = {}
    /\ UNCHANGED <<input, disk, perUnit, merged, index, workers, mergeVars,
                   reader, faults>>
    /\ UNCHANGED elsewhere

\* lines 111-113
IX_Skip ==
    /\ variant = "indexador" /\ pc = "loop" /\ todo # <<>>
    /\ is_processed(Head(todo))
    /\ todo' = Tail(todo)
    /\ UNCHANGED <<input, disk, perUnit, merged, pc, index, metadata_all,
                   vectors_all, workers, mergeVars, reader, history, faults>>
    /\ UNCHANGED elsewhere

\* lines 115-119: extract, extend the lists, touch the checkpoint.  Nothing
\* catches what extract_phashes raises: main ends with the traceback.
IX_Process ==
    /\ variant = "indexador" /\ pc = "loop" /\ todo # <<>>
    /\ ~is_processed(Head(todo))
    /\ LET u == Head(todo)
           r == extract_phashes(u)
       IN  IF r.raised
           THEN /\ failedUnits' = failedUnits \cup {u}
                /\ pc' = "aborted"
                /\ extracted' = extracted \cup {u}
                /\ todo' = <<>> /\ vectors_all' = <<>> /\ metadata_all' = <<>>
                /\ UNCHANGED checkpoints
           ELSE /\ vectors_all' = vectors_all \o r.recs
                /\ metadata_all' = metadata_all \o r.recs
                /\ checkpoints' = checkpoints \cup {u}
                /\ extracted' = extracted \cup {u}
                /\ todo' = Tail(todo)
                /\ UNCHANGED <<pc, failedUnits>>
    /\ UNCHANGED <<input, diskIndex, diskMeta, perUnit, merged, index, workers,
                   mergeVars, reader, runNo, doneAtStart, storeAtStart, faults>>
    /\ UNCHANGED elsewhere

\* lines 121-123
IX_NoNew ==
    /\ variant = "indexador" /\ pc = "loop" /\ todo = <<>>
    /\ vectors_all = <<>>
    /\ pc' = "done"
    /\ metadata_all' = <<>>
    /\ UNCHANGED <<input, disk, perUnit, merged, todo, index, vectors_all,
                   workers, mergeVars, reader, history, faults>>
    /\ UNCHANGED elsewhere

\* lines 125-132: read the index, add the new vectors, write it back
IX_WriteIndex ==
    /\ variant = "indexador" /\ pc = "loop" /\ todo = <<>>
    /\ vectors_all # <<>>
    /\ diskIndex' = diskIndex \o vectors_all
    /\ pc' = "write_meta"
    /\ UNCHANGED <<input, diskMeta, checkpoints, perUnit, merged, todo, index,
                   metadata_all, vectors_all, workers, mergeVars, reader,
                   history, faults>>
    /\ UNCHANGED elsewhere

\* lines 134-144: read the metadata, extend it, write it back
IX_WriteMeta ==
    /\ variant = "indexador" /\ pc = "write_meta"
    /\ diskMeta' = diskMeta \o metadata_all
    /\ pc' = "done"
    /\ vectors_all' = <<>> /\ metadata_all' = <<>>
    /\ UNCHANGED <<input, diskIndex, checkpoints, perUnit, merged, todo, index,
                   workers, mergeVars, reader, history, faults>>
    /\ UNCHANGED elsewhere

IXNext ==
    \/ IX_Start \/ IX_Skip \/ IX_Process \/ IX_NoNew \/ IX_WriteIndex
    \/ IX_WriteMeta

\* ----------------------------------------------------------- generate_data
\* process_video, lines 109-166: the vectors of the frames read before the
\* stream ends.  cap.read() returning ret = False ends the loop (line 142),
\* be it the end of the stream or a frame that cannot be read; a container
\* that does not open or has fps 0 returns early with nothing.
process_video_vectors(u) ==
    CASE kind[u] \in {"ok", "nopattern"} -> SeqOfFrames(u, 1, FramesPerUnit)
      [] kind[u] = "bad2" -> SeqOfFrames(u, 1, 1)
      [] OTHER -> <<>>

\* line 105: both per-unit files exist.  Units of one filename_base have
\* the same two files: hashFile[u] and metaFile[u] are the files u's base names.
already_exists(u) == hashFile[u] # <<>> /\ metaFile[u] # <<>>

InWorker == {u \in Units : wpc[u] \in {"extracted", "saved_hash"}}

\* main, lines 396-418: every video found is submitted to the pool.
GD_Start ==
    /\ variant = "generate" /\ pc \in Idle /\ mpc = "idle" /\ runNo < MaxRuns
    /\ wpc' = [u \in Units |-> "queued"]
    /\ wvec' = [u \in Units |-> <<>>]
    /\ pc' = "collect"
    /\ runNo' = runNo + 1
    /\ doneAtStart' = {u \in Units : already_exists(u)}
    /\ storeAtStart' = <<hashFile, metaFile>>
    /\ extracted' = {} /\ failedUnits' = {}
    /\ UNCHANGED <<input, disk, perUnit, merged, todo, index, metadata_all,
                   vectors_all, mergeVars, reader, faults>>
    /\ UNCHANGED elsewhere

\* process_video, lines 85-166, in a pool worker: parse the name, return at
\* once when the unit's files exist, else read the frames.
GD_Work(u) ==
    /\ variant = "generate" /\ wpc[u] = "queued"
    /\ Cardinality(InWorker) < MAX_PARALLEL_VIDEOS
    /\ IF kind[u] = "nopattern" \/ already_exists(u)
       THEN /\ wpc' = [wpc EXCEPT ![u] = "finished"]
            /\ failedUnits' = IF kind[u] = "nopattern"
                              THEN failedUnits \cup {u} ELSE failedUnits
            /\ UNCHANGED <<wvec, extracted>>
       ELSE /\ extracted' = extracted \cup {u}
            /\ UNCHANGED failedUnits
            /\ wvec' = [wvec EXCEPT ![u] = process_video_vectors(u)]
            /\ wpc' = [wpc EXCEPT ![u] =
                        IF process_video_vectors(u) = <<>> THEN "finished"
                        ELSE "extracted"]
    /\ UNCHANGED <<input, disk, perUnit, merged, mainMem, mergeVars, reader,
                   runNo, doneAtStart, storeAtStart, faults>>
    /\ UNCHANGED elsewhere

\* lines 168-169: np.save(hash_file, ...)
GD_SaveHash(u) ==
    /\ variant = "generate" /\ wpc[u] = "extracted"
    /\ hashFile' = [v \in Units |-> IF v \in SameKey(u) THEN wvec[u]
                                  ELSE hashFile[v]]
    /\ wpc' = [wpc EXCEPT ![u] = "saved_hash"]
    /\ UNCHANGED <<input, disk, metaFile, merged, mainMem, wvec, mergeVars,
                   reader, history, faults>>
    /\ UNCHANGED elsewhere

\* lines 170-178: pickle.dump(metadata, f), then return
GD_SaveMeta(u) ==
    /\ variant = "generate" /\ wpc[u] = "saved_hash"
    /\ metaFile' = [v \in Units |-> IF v \in SameKey(u) THEN wvec[u]
                                  ELSE metaFile[v]]
    /\ wpc' = [wpc EXCEPT ![u] = "finished"]
    /\ UNCHANGED <<input, disk, hashFile, merged, mainMem, wvec, mergeVars,
                   reader, history, faults>>
    /\ UNCHANGED elsewhere

\* main, lines 419-426: as_completed hands over a finished future
GD_Collect(u) ==
    /\ variant = "generate" /\ pc = "collect" /\ wpc[u] = "finished"
    /\ wpc' = [wpc EXCEPT ![u] = "collected"]
    /\ UNCHANGED <<input, disk, perUnit, merged, mainMem, wvec, mergeVars,
                   reader, history, faults>>
    /\ UNCHANGED elsewhere

\* main, lines 428-438
GD_Finish ==
    /\ variant = "generate" /\ pc = "collect"
    /\ \A u \in Units : wpc[u] = "collected"
    /\ pc' = "done"
    /\ wpc' = [u \in Units |-> "none"] /\ wvec' = [u \in Units |-> <<>>]
    /\ UNCHANGED <<input, disk, perUnit, merged, todo, index, metadata_all,
                   vectors_all, mergeVars, reader, history, faults>>
    /\ UNCHANGED elsewhere

GDNext ==
    \/ GD_Start \/ GD_Finish
    \/ \E u \in Units : GD_Work(u) \/ GD_SaveHash(u) \/ GD_SaveMeta(u)
                        \/ GD_Collect(u)

\* --------------------------------------------------- merge_individual_data
\* The orders os.listdir may return the files of S in.
Orders(S) ==
    {o \in [1..Cardinality(S) -> S] : \A i, j \in DOMAIN o : o[i] = o[j] => i = j}

\* line 17: the phashes_*.npy files of the directory, each named by the
\* first of the units that share it
HashFiles ==
    {u \in Units : hashFile[u] # <<>> /\ \A v \in SameKey(u) : u <= v}

\* metadata.get(i, {}), line 32; <<>> is the empty dict
MetaGet(m, i) == IF i \in DOMAIN m THEN m[i] ELSE <<>>

RECURSIVE merge_loop(_, _)
\* lines 16-33 over the listing `order`: the pair <<combined_hashes, the
\* values of combined_metadata in id order>>; the id of an entry is its
\* position, counted from 0 in the code and from 1 here.
merge_loop(order, n) ==
    IF n = 0 THEN <<<<>>, <<>>>>
    ELSE LET rest == merge_loop(order, n - 1)
             u == order[n]
         IN  IF metaFile[u] = <<>> THEN rest
             ELSE <<rest[1] \o hashFile[u],
                    rest[2] \o [i \in DOMAIN hashFile[u] |-> MetaGet(metaFile[u], i)]>>

\* lines 10-36: current_id = 0, then the loop over the listing
MG_Combine ==
    /\ variant = "generate" /\ pc \in Idle /\ mpc = "idle"
    /\ merges < MaxMerges
    /\ \E order \in Orders(HashFiles) :
          combined' = merge_loop(order, Len(order))
    /\ merges' = merges + 1
    /\ mpc' = "save_hashes"
    /\ UNCHANGED <<input, disk, perUnit, merged, mainMem, workers, reader,
                   history, faults>>
    /\ UNCHANGED elsewhere

\* line 39
MG_SaveHashes ==
    /\ mpc = "save_hashes"
    /\ phashes' = combined[1]
    /\ mpc' = "save_meta"
    /\ UNCHANGED <<input, disk, perUnit, metadataPkl, mainMem, workers,
                   combined, merges, reader, history, faults>>
    /\ UNCHANGED elsewhere

\* lines 40-41
MG_SaveMeta ==
    /\ mpc = "save_meta"
    /\ metadataPkl' = combined[2]
    /\ mpc' = "idle"
    /\ UNCHANGED <<input, disk, perUnit, phashes, mainMem, workers, combined,
                   merges, reader, history, faults>>
    /\ UNCHANGED elsewhere

MGNext == MG_Combine \/ MG_SaveHashes \/ MG_SaveMeta

\* ------------------------------------------------------ searchPhash.search
\* lines 93-96 with use_cached=False: read the index, then the metadata
RD_ReadIndex ==
    /\ rdPc = "idle"
    /\ rdIndex' = diskIndex
    /\ rdPc' = "index_read"
    /\ UNCHANGED <<input, disk, perUnit, merged, mainMem, workers, mergeVars,
                   rdMeta, history, faults>>
    /\ UNCHANGED elsewhere

RD_ReadMeta ==
    /\ rdPc = "index_read"
    /\ rdMeta' = diskMeta
    /\ rdPc' = "loaded"
    /\ UNCHANGED <<input, disk, perUnit, merged, mainMem, workers, mergeVars,
                   rdIndex, history, faults>>
    /\ UNCHANGED elsewhere

\* the search returns; the next one loads afresh
RD_Return ==
    /\ rdPc = "loaded"
    /\ rdPc' = "idle" /\ rdIndex' = <<>> /\ rdMeta' = <<>>
    /\ UNCHANGED <<input, disk, perUnit, merged, mainMem, workers, mergeVars,
                   history, faults>>
    /\ UNCHANGED elsewhere

RDNext == RD_ReadIndex \/ RD_ReadMeta \/ RD_Return

\* ------------------------------------------------------------------ faults
\* The ingestion process is killed (power loss, SIGKILL) at any point of a
\* run: what it held in memory is gone, what it wrote stays.
Crash ==
    /\ pc \notin Idle
    /\ crashes < MaxCrashes
    /\ crashes' = crashes + 1
    /\ interrupted' = TRUE
    /\ pc' = "stopped"
    /\ todo' = <<>> /\ index' = <<>> /\ metadata_all' = <<>>
    /\ vectors_all' = <<>>
    /\ wpc' = [u \in Units |-> "none"] /\ wvec' = [u \in Units |-> <<>>]
    /\ UNCHANGED <<input, disk, perUnit, merged, mergeVars, reader, history,
                   ioErrors>>
    /\ UNCHANGED elsewhere

\* Ingestion runs of one script over one corpus, with kills and restarts,
\* and merge runs between them.
Next == CPNext \/ IXNext \/ GDNext \/ MGNext \/ Crash

Spec == Init /\ [][Next]_vars

\* A search loading the store while createPhash or indexador commits.
InitReader == Init /\ variant \in {"createPhash", "indexador"}

NextReader == CPNext \/ IXNext \/ RDNext

SpecReader == InitReader /\ [][NextReader]_vars

\* Ingestion runs over a corpus of decodable units that lie anywhere under
\* the root, under any names.
InitKeys ==
    /\ variant \in Variants
    /\ kind = [u \in Units |-> "ok"]
    /\ path \in {f \in [Units -> Paths] : \A u, v \in Units : f[u] = f[v] => u = v}
    /\ Fresh
    /\ NotSampling
    /\ OthersIdle
    /\ NotServing

NextKeys == CPNext \/ IXNext \/ GDNext

SpecKeys == InitKeys /\ [][NextKeys]_vars

\* generate_data.py over units of any paths, and merge_individual_data.py
\* over the per-unit files it leaves
InitMerge == InitKeys /\ variant = "generate"

NextMerge == GDNext \/ MGNext

SpecMerge == InitMerge /\ [][NextMerge]_vars

\* ----------------------------------------------------------- frame sampling
\* The sampling of one unit, frame by frame: process_video of generate_data
\* and FrameExtractorService of the API.  Every frame of the unit decodes.
Samplers == {"generate_data", "frame_extractor"}

\* Frame rates whose frame times k / fps Python rounds as round2 does: the
\* quotient is a binary fraction, or has no third decimal to round.
FrameRates == {1, 2, 4, 5, 8, 10}

FRAME_POSITIONS == <<"start", "middle", "end">>

\* generate_data line 126, in hundredths of a second
offset(pos) == IF pos = "start" THEN 10 ELSE IF pos = "middle" THEN 50 ELSE 90

\* generate_data lines 123-128: the dict targets, as the set of its items;
\* a time is the number of hundredths round(., 2) keeps.
targets(duration) ==
    {<<100 * sec + offset(FRAME_POSITIONS[i]), <<sec, FRAME_POSITIONS[i]>>>> :
        sec \in 0..(duration - 1), i \in DOMAIN FRAME_POSITIONS}

\* round(k / rate, 2), in hundredths: to the nearest, a tie to the even one
round2(k, rate) ==
    LET q == (100 * k) \div rate
        r == (100 * k) % rate
    IN  IF 2 * r < rate THEN q
        ELSE IF 2 * r > rate THEN q + 1
        ELSE IF q % 2 = 0 THEN q ELSE q + 1

\* generate_data lines 141-164: one turn of the read loop
SM_Read ==
    /\ sampler = "generate_data" /\ smPc = "reading"
    /\ frame_index < total_frames
    /\ LET current_time == round2(frame_index, fps)
           hit == {t \in targets(total_frames \div fps) : t[1] = current_time}
       IN  records' = IF hit = {} THEN records
                      ELSE Append(records, (CHOOSE t \in hit : TRUE)[2])
    /\ frame_index' = frame_index + 1
    /\ UNCHANGED <<ingestion, serving, others, sampler, fps, total_frames, current_second, smPc>>

\* lines 142-143: cap.read() fails past the last frame
SM_End ==
    /\ sampler = "generate_data" /\ smPc = "reading"
    /\ frame_index = total_frames
    /\ smPc' = "done"
    /\ UNCHANGED <<ingestion, serving, others, sampler, fps, total_frames, frame_index,
                   current_second, records>>

\* frame_extractor lines 99-107: the three frame numbers of a second
frame_positions(second) ==
    <<<<"start", second * fps>>,
      <<"middle", (2 * second * fps + fps) \div 2>>,
      <<"end", (second + 1) * fps - 1>>>>

\* lines 109-145: cap.set, cap.read, and a record for every frame read
extract_3_frames_from_second(second) ==
    LET fp == frame_positions(second)
        got(i) == IF fp[i][2] >= 0 /\ fp[i][2] < total_frames
                  THEN <<<<second, fp[i][1]>>>> ELSE <<>>
    IN  got(1) \o got(2) \o got(3)

\* frame_extractor lines 56-61: one turn of the loop over the seconds;
\* current_second < total_frames / fps
FX_Second ==
    /\ sampler = "frame_extractor" /\ smPc = "reading"
    /\ current_second * fps < total_frames
    /\ records' = records \o extract_3_frames_from_second(current_second)
    /\ current_second' = current_second + 1
    /\ UNCHANGED <<ingestion, serving, others, sampler, fps, total_frames, frame_index, smPc>>

\* line 63
FX_End ==
    /\ sampler = "frame_extractor" /\ smPc = "reading"
    /\ ~(current_second * fps < total_frames)
    /\ smPc' = "done"
    /\ UNCHANGED <<ingestion, serving, others, sampler, fps, total_frames, frame_index,
                   current_second, records>>

\* A unit of 1..MaxSeconds whole seconds at one of the frame rates.
InitSampling ==
    /\ variant = "generate"
    /\ kind = [u \in Units |-> "ok"]
    /\ path = [u \in Units |-> DefaultPath(u)]
    /\ Fresh
    /\ sampler \in Samplers
    /\ fps \in FrameRates
    /\ total_frames \in {d * fps : d \in 1..MaxSeconds}
    /\ frame_index = 0 /\ current_second = 0 /\ records = <<>>
    /\ smPc = "reading"
    /\ NotServing
    /\ OthersIdle

NextSampling == SM_Read \/ SM_End \/ FX_Second \/ FX_End

SpecSampling == InitSampling /\ [][NextSampling]_vars

\* ------------------------------------------------------------------ the API
\* The programs that answer queries: src/main.py, the router of src/app with
\* its ImageSearchService, and searchPhash.search(use_cached=True).  The store
\* files are not written while they run.
Apps == {"main", "service", "searchPhash"}

\* PHASHES_PATH and METADATA_PATH (INDEX_PATH and METADATA_PATH of searchPhash)
HashesFile == IF app = "searchPhash" THEN diskIndex ELSE phashes
MetadataFile == IF app = "searchPhash" THEN diskMeta ELSE metadataPkl

EmptyDict == <<>>

\* the metadata entry of the record sampled from frame f
MetaOf(f) == [frame |-> f]

\* pickle.load(f) of the metadata file
LoadedMetadata ==
    [keys |-> "id", d |-> [i \in DOMAIN MetadataFile |-> MetaOf(MetadataFile[i])]]

\* The index with every vector of the hashes file: index.add_with_ids(
\* binary_vectors, ids) with ids = list(metadata.keys()), or faiss.read_index.
\* An entry is <<id, frame>>; the vector of the entry is pix[frame].
BuiltIndex == IndexOf([i \in DOMAIN HashesFile |-> <<i, HashesFile[i]>>])

LoopFreeAlways == TRUE

\* The handlers are coroutines of one event loop: a request is taken up
\* when the loop runs nothing else.
LoopFree == loop = "free"

\* What an exception in the load leads to: the startup of main.py fails and
\* the server exits; load_data re-raises into the request that called it,
\* which answers with an error.
LoadFail ==
    IF app = "main"
    THEN /\ ldPc' = "dead"
         /\ UNCHANGED <<loop, qPc, qcur, results>>
    ELSE /\ ldPc' = "unloaded"
         /\ loop' = "free" /\ qPc' = "idle"
         /\ results' = ErrorResponse
         /\ UNCHANGED qcur

\* main.py 213-217, service 64-70: the hashes file is read (both files must
\* exist for the service); searchPhash 31: _cached_index = faiss.read_index
LD_ReadHashes ==
    /\ ldPc = "begun"
    /\ IF HashesFile = <<>> \/ (app = "service" /\ MetadataFile = <<>>)
       THEN LoadFail /\ UNCHANGED api_index
       ELSE /\ ldPc' = "hashes"
            /\ api_index' = IF app = "searchPhash" THEN BuiltIndex ELSE api_index
            /\ UNCHANGED <<loop, qPc, qcur, results>>
    /\ UNCHANGED <<ingestion, sampling, others, upload, app, pix, qpix, api_metadata, data_loaded>>

\* main.py 222-227, service 75-76: metadata = pickle.load(f);
\* searchPhash 32-35: _cached_metadata = pickle.load(f), _is_loaded = True
LD_ReadMetadata ==
    /\ ldPc = "hashes"
    /\ IF MetadataFile = <<>>
       THEN LoadFail /\ UNCHANGED <<api_metadata, data_loaded>>
       ELSE /\ api_metadata' = LoadedMetadata
            /\ IF app = "searchPhash"
               THEN /\ data_loaded' = TRUE /\ ldPc' = "loaded"
                    /\ qPc' = "search"
               ELSE /\ ldPc' = "metadata"
                    /\ UNCHANGED <<data_loaded, qPc>>
            /\ UNCHANGED <<loop, qcur, results>>
    /\ UNCHANGED <<ingestion, sampling, others, upload, app, pix, qpix, api_index>>

\* main.py 240-241, service 93-94: index = faiss.IndexBinaryIDMap(base_index)
LD_NewIndex ==
    /\ ldPc = "metadata"
    /\ api_index' = IndexOf(<<>>)
    /\ ldPc' = "index"
    /\ UNCHANGED <<ingestion, sampling, others, upload, app, pix, qpix, api_metadata,
                   data_loaded, loop, qPc, qcur, results>>

\* main.py 242-243, service 95-101: index.add_with_ids(binary_vectors, ids),
\* which raises unless there are as many ids as vectors
LD_AddWithIds ==
    /\ ldPc = "index"
    /\ IF Len(HashesFile) # Len(api_metadata.d)
       THEN LoadFail /\ UNCHANGED <<api_index, data_loaded>>
       ELSE /\ api_index' = BuiltIndex
            /\ ldPc' = "loaded"
            /\ IF app = "service"
               THEN /\ data_loaded' = TRUE /\ qPc' = "search"
                    /\ UNCHANGED loop
               ELSE /\ loop' = "free"
                    /\ UNCHANGED <<data_loaded, qPc>>
            /\ UNCHANGED <<qcur, results>>
    /\ UNCHANGED <<ingestion, sampling, others, upload, app, pix, qpix, api_metadata>>

LDNext == LD_ReadHashes \/ LD_ReadMetadata \/ LD_NewIndex \/ LD_AddWithIds

\* ------------------------------------------------------------------ queries
\* the number of bits in which two fingerprints differ
Hamming(a, b) == Cardinality((a \ b) \cup (b \ a))

\* compute_phash_vector of the API (main.py 116-141, service 108-133)
QueryVector(f) == qpix[f]

\* index.search(query_vector, k) of faiss: k rows; the min(k, ntotal)
\* nearest entries by ascending distance, entries of one distance in an
\* order faiss does not specify; then rows of id -1 up to k.  A row is
\* <<id, distance>>.
SearchOutcomes(idx, v, k) ==
    LET n == Len(idx.entries)
        m == IF k < n THEN k ELSE n
        dist(p) == Hamming(pix[idx.entries[p][2]], v)
        picks == {s \in [1..m -> 1..n] :
                    /\ \A i, j \in 1..m :
                          i < j => (s[i] # s[j] /\ dist(s[i]) <= dist(s[j]))
                    /\ \A p \in (1..n) \ Range(s) :
                          \A i \in 1..m : dist(s[i]) <= dist(p)}
    IN  {[i \in 1..k |-> IF i <= m
                         THEN <<idx.entries[s[i]][1], dist(s[i])>>
                         ELSE <<NO_ID, NO_DISTANCE>>] : s \in picks}

\* 100 * (64 - hamming_dist) / 64, kept as the count 64 - hamming_dist of
\* equal bits: a similarity s stands for 100 * s / 64 percent
similarity_pct(d) == HASH_BITS - d

\* metadata.get(id, {})
MetadataGet(m, id) ==
    IF m.keys = "id" /\ id \in DOMAIN m.d THEN m.d[id] ELSE EmptyDict

\* main.py 173-186, service 171-187: the results of the rows
search_similar_frame(rows) ==
    [i \in DOMAIN rows |->
        [id |-> rows[i][1], distance |-> rows[i][2],
         similarity_percentage |-> similarity_pct(rows[i][2]),
         metadata |-> MetadataGet(api_metadata, rows[i][1])]]

\* main.py 340-351: metadata["time_formatted"] = ..., from metadata's second
time_formatted(d) ==
    ("time_formatted" :> (IF "frame" \in DOMAIN d THEN <<"time", d.frame>>
                          ELSE <<"0:00">>)) @@ d

\* searchPhash 122: metadata[idx] of a list; -1 is its last position
ListPosition(m, idx) == IF idx = NO_ID THEN Len(m.d) ELSE idx

\* searchPhash 121-168: the results of the rows; an IndexError of line 122
\* ends the search
search(rows) ==
    IF \E i \in DOMAIN rows : ListPosition(api_metadata, rows[i][1]) \notin DOMAIN api_metadata.d
    THEN ErrorResponse
    ELSE Response([i \in DOMAIN rows |->
            [rank |-> i, similarity |-> similarity_pct(rows[i][2]),
             metadata |-> api_metadata.d[ListPosition(api_metadata, rows[i][1])]]])

\* A request arrives: main.py 302-308 answers 500 while index or metadata
\* is None; the service (146-147) and searchPhash (90-91) load the store
\* first when their flag is not set.
Q_Begin(f, k) ==
    /\ LoopFree /\ qPc = "idle" /\ ldPc # "dead"
    /\ upload' = "image"
    /\ IF app = "main"
       THEN IF api_index.none \/ api_metadata.keys = "none"
            THEN /\ results' = ErrorResponse
                 /\ UNCHANGED <<ldPc, loop, qPc, qcur>>
            ELSE /\ qPc' = "search" /\ loop' = "request" /\ qcur' = <<f, k>>
                 /\ UNCHANGED <<ldPc, results>>
       ELSE /\ loop' = "request" /\ qcur' = <<f, k>>
            /\ IF data_loaded
               THEN qPc' = "search" /\ UNCHANGED ldPc
               ELSE qPc' = "loading" /\ ldPc' = "begun"
            /\ UNCHANGED results
    /\ UNCHANGED <<ingestion, sampling, others, app, pix, qpix, api_index,
                   api_metadata, data_loaded>>

\* The search and the answer.  main.py 332-376 assigns each result's
\* metadata to the global name metadata and writes time_formatted into it;
\* the router of the service (image_search.py 78-120) copies the fields.
Q_Search ==
    /\ qPc = "search"
    /\ \E rows \in SearchOutcomes(api_index, QueryVector(qcur[1]), qcur[2]) :
          CASE app = "main" ->
                 LET res == search_similar_frame(rows)
                     formatted == [i \in DOMAIN res |->
                        [res[i] EXCEPT !.metadata = time_formatted(res[i].metadata)]]
                 IN  /\ results' = Response(formatted)
                     /\ api_metadata' = [keys |-> "field",
                                         d |-> formatted[Len(formatted)].metadata]
            [] app = "service" ->
                 /\ results' = Response(search_similar_frame(rows))
                 /\ UNCHANGED api_metadata
            [] OTHER ->
                 /\ results' = search(rows)
                 /\ UNCHANGED api_metadata
    /\ qPc' = "idle" /\ loop' = "free"
    /\ UNCHANGED <<ingestion, sampling, others, upload, app, pix, qpix, api_index,
                   data_loaded, ldPc, qcur>>

QNext == Q_Search \/ \E f \in StoreFrames, k \in 1..MaxK : Q_Begin(f, k)

\* The stores the API may find: any number of vectors and of metadata entries
StoreSeqs == {SeqOfFrames(1, 1, n) : n \in 0..FramesPerUnit}

\* The fingerprints of a corpus all different
DefaultPix ==
    [f \in StoreFrames |->
        IF f[2] = 1 THEN {} ELSE IF f[2] = 2 THEN {1} ELSE 1..20]

\* The frames with a side of more than 64 pixels: all but the first
LargerThan64(f) == f[2] > 1

\* What is done to a frame before imagehash.phash, at ingestion
\* (generate_data.compute_phash_vector) and at a query
\* (compute_phash_vector of main.py and of ImageSearchService)
ingest_normalization(f) == <<"cvtColor", "fromarray">>
query_normalization(f) ==
    (IF LargerThan64(f) THEN <<"resize_64x64">> ELSE <<>>) \o <<"cvtColor", "fromarray">>

\* The API hashes a frame larger than 64 x 64 after cv2.resize, ingestion
\* hashes it as it is: the two fingerprints of a frame are equal, or differ
\* in a bit for one of the frames that are resized.
QueryHashings(p) ==
    {p} \cup UNION {{[p EXCEPT ![f] = h] :
                        h \in {g \in Fingerprints : Hamming(g, p[f]) = 1}} :
                     f \in {g \in StoreFrames :
                              query_normalization(g) # ingest_normalization(g)}}

\* The store files as some ingestion left them, of hs vectors and ms
\* metadata entries, and the API program about to start.
StoreOnDisk(hs, ms) ==
    /\ IF app = "searchPhash"
       THEN /\ diskIndex = hs /\ diskMeta = ms
            /\ phashes = <<>> /\ metadataPkl = <<>>
       ELSE /\ phashes = hs /\ metadataPkl = ms
            /\ diskIndex = <<>> /\ diskMeta = <<>>
    /\ variant = (IF app = "searchPhash" THEN "createPhash" ELSE "generate")
    /\ kind = [u \in Units |-> "ok"]
    /\ path = [u \in Units |-> DefaultPath(u)]
    /\ NoRun
    /\ NotSampling
    /\ OthersIdle

\* The server starts: main.py runs startup_load_index before it takes
\* requests; the service and searchPhash load at the first request.
InitServe ==
    /\ app \in Apps
    /\ \E hs \in StoreSeqs, ms \in StoreSeqs : StoreOnDisk(hs, ms)
    /\ pix = DefaultPix /\ qpix = DefaultPix
    /\ api_index = NoIndex /\ api_metadata = NoMetadata
    /\ data_loaded = FALSE
    /\ ldPc = (IF app = "main" THEN "begun" ELSE "unloaded")
    /\ loop = (IF app = "main" THEN "startup" ELSE "free")
    /\ qPc = "idle" /\ qcur = <<>> /\ results = NoResponse /\ upload = "none"

NextServe == LDNext \/ QNext

SpecServe == InitServe /\ [][NextServe]_vars

\* The API with a whole store loaded, of any fingerprints, taking requests.
InitSearch ==
    /\ app \in Apps
    /\ \E hs \in StoreSeqs \ {<<>>} : StoreOnDisk(hs, hs)
    /\ pix \in [StoreFrames -> Fingerprints]
    /\ qpix \in QueryHashings(pix)
    /\ api_index = BuiltIndex /\ api_metadata = LoadedMetadata
    /\ data_loaded = (app # "main")
    /\ ldPc = "loaded" /\ loop = "free"
    /\ qPc = "idle" /\ qcur = <<>> /\ results = NoResponse /\ upload = "none"

SpecSearch == InitSearch /\ [][QNext]_vars

\* ------------------------------------------------------- the HTTP answers
\* What a request may carry as its file: an image, bytes with the content
\* type of an image that cv2.imdecode cannot decode, or a file of another
\* content type.  A request whose max_results / top_k is out of its range
\* is noted as "out_of_range".
Uploads == {"image", "corrupt", "not_image"}

\* HTTPException(status_code=400, ...), and the 422 FastAPI answers when a
\* Query parameter is out of its range
ClientErrorResponse == [status |-> "client_error", items |-> <<>>]
ValidationErrorResponse == [status |-> "unprocessable", items |-> <<>>]

\* The HTTP status of a response; every error response of the handlers is
\* an HTTPException(status_code=500) of them or of the framework.
status_code(resp) ==
    CASE resp.status = "ok" -> 200
      [] resp.status = "client_error" -> 400
      [] resp.status = "unprocessable" -> 422
      [] resp.status = "error" -> 500
      [] OTHER -> 0

\* A request that does not reach the search.  max_results / top_k below 1
\* is refused by FastAPI.  main.py 304-331: index or metadata None gives
\* 500, another content type 400, an undecodable image 400.  The router
\* (image_search.py 66-76, 139-143) answers another content type with 400;
\* search_from_bytes raises ValueError for an undecodable image, which the
\* router's except Exception turns into 500.
Q_Reject(u, k) ==
    /\ LoopFree /\ qPc = "idle" /\ ldPc # "dead"
    /\ app \in {"main", "service"}
    /\ u # "image" \/ k = 0
    /\ upload' = (IF k = 0 THEN "out_of_range" ELSE u)
    /\ results' =
          IF k = 0 THEN ValidationErrorResponse
          ELSE IF app = "main"
               THEN IF api_index.none \/ api_metadata.keys = "none"
                    THEN ErrorResponse
                    ELSE ClientErrorResponse
          ELSE IF u = "not_image" THEN ClientErrorResponse
          ELSE ErrorResponse
    /\ UNCHANGED <<ingestion, sampling, others, app, pix, qpix, api_index,
                   api_metadata, data_loaded, ldPc, loop, qPc, qcur>>

NextHttp == LDNext \/ QNext \/ \E u \in Uploads, k \in 0..MaxK : Q_Reject(u, k)

SpecHttp == InitServe /\ [][NextHttp]_vars

\* ------------------------------------------------- the vector layouts
\* The hashes a frame may have in one family
HashValues == {{}, 1..(HASH_BITS \div 2), 1..HASH_BITS}
HashTriples == [ph : HashValues, dh : HashValues, ah : HashValues]

\* np.concatenate of the bit arrays: a vector is a sequence of the hashes
\* of its families, one after the other
hashes_to_vector(ph, dh, ah) == <<[family |-> "phash", bits |-> ph],
                                  [family |-> "dhash", bits |-> dh],
                                  [family |-> "ahash", bits |-> ah]>>
phash_to_vector(phash_str) == <<[family |-> "phash", bits |-> phash_str]>>

\* the number of float components of a vector
Dim(v) == HASH_BITS * Len(v)

\* The vector the ingestion script makes of a frame: createPhash 109-112,
\* indexador 82-83
IngestVector(v, h) ==
    IF v = "createPhash" THEN hashes_to_vector(h.ph, h.dh, h.ah)
    ELSE phash_to_vector(h.ph)

\* faiss.IndexFlatL2(192) of createPhash 157, faiss.IndexFlatL2(64) of
\* indexador 129: the d of the index file the script leaves
IndexD(v) == IF v = "createPhash" THEN 192 ELSE 64

\* IndexFlatL2: the squared L2 distance of two vectors of 0.0 and 1.0 is
\* the number of the components that differ
L2Squared(a, b) ==
    LET diff(i) == Cardinality((a[i].bits \ b[i].bits) \cup (b[i].bits \ a[i].bits))
        sum[i \in 0..Len(a)] == IF i = 0 THEN 0 ELSE sum[i - 1] + diff(i)
    IN  sum[Len(a)]

\* searchPhash.search 124: similarity = (1 - dist / 64) * 100, kept as 64
\* times its value
similarity_x64(dist) == 100 * (HASH_BITS - dist)

FailedOutcome(op) == [NoOutcome EXCEPT !.op = op, !.status = "error"]

\* searchPhash.search 100-124 on the index file: index.search raises when
\* the query has not the d of the index.
LY_Search ==
    /\ LET query_vec == hashes_to_vector(query_hashes.ph, query_hashes.dh,
                                         query_hashes.ah)
           stored == IngestVector(variant, frame_hashes)
       IN  outcome' =
             IF Dim(query_vec) # IndexD(variant)
             THEN FailedOutcome("search")
             ELSE [op |-> "search", status |-> "ok",
                   dist |-> L2Squared(stored, query_vec),
                   similarity_x64 |-> similarity_x64(L2Squared(stored, query_vec)),
                   families |-> {query_vec[i].family : i \in DOMAIN query_vec}]
    /\ UNCHANGED <<ingestion, sampling, serving, extractor, framesearch, frame_hashes,
                   query_hashes>>

\* A run of ingestion script v on the index file that is there: createPhash
\* 154-170 and indexador 126-131 read the index and index.add their vectors,
\* which raises when they have not the d of the index.
LY_Add(v) ==
    /\ outcome' =
          IF Dim(IngestVector(v, query_hashes)) # IndexD(variant)
          THEN FailedOutcome(v)
          ELSE [NoOutcome EXCEPT !.op = v, !.status = "ok",
                  !.families = {IngestVector(v, query_hashes)[i].family :
                                  i \in DOMAIN IngestVector(v, query_hashes)}]
    /\ UNCHANGED <<ingestion, sampling, serving, extractor, framesearch, frame_hashes,
                   query_hashes>>

\* An index file of one frame, left by createPhash or by indexador
InitLayout ==
    /\ variant \in {"createPhash", "indexador"}
    /\ kind = [u \in Units |-> "ok"]
    /\ path = [u \in Units |-> DefaultPath(u)]
    /\ Fresh
    /\ NotSampling
    /\ NotServing
    /\ NotExtracting
    /\ frame_hashes \in HashTriples
    /\ query_hashes \in HashTriples
    /\ outcome = NoOutcome
    /\ NotSearchingFrames

NextLayout == LY_Search \/ \E v \in {"createPhash", "indexador"} : LY_Add(v)

SpecLayout == InitLayout /\ [][NextLayout]_vars

\* ---------------------------------------------------- the frame search
\* str(imagehash.phash(image)): the hash as a string of hex digits, here a
\* sequence of HexLen digits 0..15
HexDigits == {0, 1, 15}
HexStrings == [1..HexLen -> HexDigits]

\* the bits of a hex digit that are 1
BitsOfDigit(d) == {i \in 0..3 : (d \div (2 ^ i)) % 2 = 1}

\* the number of bit positions in which two hashes of one length differ
BitDifference(h1, h2) ==
    LET diff(i) == Cardinality((BitsOfDigit(h1[i]) \ BitsOfDigit(h2[i]))
                                 \cup (BitsOfDigit(h2[i]) \ BitsOfDigit(h1[i])))
        sum[i \in 0..Len(h1)] == IF i = 0 THEN 0 ELSE sum[i - 1] + diff(i)
    IN  sum[Len(h1)]

\* _hamming_distance: 64 for strings of different lengths, else
\* sum(c1 != c2 for c1, c2 in zip(hash1, hash2))
hamming_distance(hash1, hash2) ==
    IF Len(hash1) # Len(hash2) THEN HASH_BITS
    ELSE Cardinality({i \in DOMAIN hash1 : hash1[i] # hash2[i]})

\* search_similar_frame 51-89 and search_by_upload 133-171: the frames are
\* scanned in the order of the database and the first one within the
\* threshold is returned at once.
FirstMatch(by) ==
    LET within == {i \in DOMAIN database :
                     hamming_distance(search_hashes, database[i]) <= threshold}
        first == CHOOSE i \in within : \A j \in within : i <= j
    IN  IF within = {}
        THEN [success |-> "no", by |-> by, position |-> 0, distance |-> 0]
        ELSE [success |-> "yes", by |-> by, position |-> first,
              distance |-> hamming_distance(search_hashes, database[first])]

\* search_similar_frame(image_path, threshold, "phash")
FS_Search ==
    /\ found = NoResult
    /\ found' = FirstMatch("path")
    /\ UNCHANGED <<ingestion, sampling, serving, extractor, vectors, database,
                   search_hashes, threshold>>

\* search_by_upload(image_data, threshold, "phash")
FS_Upload ==
    /\ found = NoResult
    /\ found' = FirstMatch("upload")
    /\ UNCHANGED <<ingestion, sampling, serving, extractor, vectors, database,
                   search_hashes, threshold>>

\* A database of some frames, and a search image
InitFrameSearch ==
    /\ variant = "generate"
    /\ kind = [u \in Units |-> "ok"]
    /\ path = [u \in Units |-> DefaultPath(u)]
    /\ Fresh
    /\ NotSampling
    /\ NotServing
    /\ NotExtracting
    /\ NotComparing
    /\ database \in UNION {[1..n -> HexStrings] : n \in 1..MaxFrames}
    /\ search_hashes \in HexStrings
    /\ threshold \in 0..MaxThreshold
    /\ found = NoResult

NextFrameSearch == FS_Search \/ FS_Upload

SpecFrameSearch == InitFrameSearch /\ [][NextFrameSearch]_vars

\* ------------------------------------------------- the frame extractor
\* extract_frames_from_video 37-63, 86-90: the video is read; a video that
\* does not open raises, and the call returns success False.
EX_Extract(c, opened) ==
    /\ epc[c] = "idle"
    /\ IF opened
       THEN epc' = [epc EXCEPT ![c] = "save"] /\ UNCHANGED returned
       ELSE /\ epc' = [epc EXCEPT ![c] = "done"]
            /\ returned' = [returned EXCEPT ![c] = "failure"]
    /\ UNCHANGED <<ingestion, sampling, serving, vectors, framesearch, json_file, stored_before,
                   existing_data, appended, json_errors>>

\* An I/O error of the operating system on the file may happen.
MayFail == json_errors < MaxJsonErrors

\* _save_to_json 161-166: existing_data = json.load(f) when the file
\* exists, {"extractions": []} otherwise; a file another caller has
\* truncated is no JSON.  Any exception goes to the except of 178-179,
\* which prints it, and _save_to_json returns.
EX_Read(c) ==
    /\ epc[c] = "save"
    /\ \/ /\ json_file.state # "truncated"
          /\ existing_data' = [existing_data EXCEPT ![c] = json_file.extractions]
          /\ epc' = [epc EXCEPT ![c] = "open"]
          /\ UNCHANGED json_errors
       \/ /\ json_file.state = "truncated"
          /\ epc' = [epc EXCEPT ![c] = "return"]
          /\ UNCHANGED <<existing_data, json_errors>>
       \/ /\ json_file.state = "whole" /\ MayFail
          /\ json_errors' = json_errors + 1
          /\ epc' = [epc EXCEPT ![c] = "return"]
          /\ UNCHANGED existing_data
    /\ UNCHANGED <<ingestion, sampling, serving, vectors, framesearch, json_file, stored_before,
                   returned, appended>>

\* _save_to_json 168-172: the extraction is appended to existing_data and
\* the file is opened for writing, which empties it.
EX_Open(c) ==
    /\ epc[c] = "open"
    /\ \/ /\ json_file' = FileTruncated
          /\ existing_data' = [existing_data EXCEPT ![c] = Append(@, c)]
          /\ epc' = [epc EXCEPT ![c] = "dump"]
          /\ UNCHANGED json_errors
       \/ /\ MayFail
          /\ json_errors' = json_errors + 1
          /\ epc' = [epc EXCEPT ![c] = "return"]
          /\ UNCHANGED <<json_file, existing_data>>
    /\ UNCHANGED <<ingestion, sampling, serving, vectors, framesearch, stored_before, returned, appended>>

\* _save_to_json 173: json.dump(existing_data, f) and the close of the file
EX_Dump(c) ==
    /\ epc[c] = "dump"
    /\ \/ /\ json_file' = FileWith(existing_data[c])
          /\ appended' = [appended EXCEPT ![c] = TRUE]
          /\ UNCHANGED json_errors
       \/ /\ MayFail
          /\ json_errors' = json_errors + 1
          /\ UNCHANGED <<json_file, appended>>
    /\ epc' = [epc EXCEPT ![c] = "return"]
    /\ UNCHANGED <<ingestion, sampling, serving, vectors, framesearch, stored_before, existing_data,
                   returned>>

\* extract_frames_from_video 79-84: return {"success": True, ...}
EX_Return(c) ==
    /\ epc[c] = "return"
    /\ returned' = [returned EXCEPT ![c] = "success"]
    /\ epc' = [epc EXCEPT ![c] = "done"]
    /\ UNCHANGED <<ingestion, sampling, serving, vectors, framesearch, json_file, stored_before,
                   existing_data, appended, json_errors>>

\* The database holds nothing or an earlier extraction; no caller has begun.
InitExtractor ==
    /\ variant = "generate"
    /\ kind = [u \in Units |-> "ok"]
    /\ path = [u \in Units |-> DefaultPath(u)]
    /\ Fresh
    /\ NotSampling
    /\ NotServing
    /\ stored_before \in {<<>>, <<0>>}
    /\ json_file = (IF stored_before = <<>> THEN FileAbsent ELSE FileWith(stored_before))
    /\ epc = [c \in Callers |-> "idle"]
    /\ existing_data = [c \in Callers |-> <<>>]
    /\ returned = [c \in Callers |-> "none"]
    /\ appended = [c \in Callers |-> FALSE]
    /\ json_errors = 0
    /\ NotComparing
    /\ NotSearchingFrames

NextExtractor ==
    \E c \in Callers :
        \/ \E opened \in BOOLEAN : EX_Extract(c, opened)
        \/ EX_Read(c) \/ EX_Open(c) \/ EX_Dump(c) \/ EX_Return(c)

SpecExtractor == InitExtractor /\ [][NextExtractor]_vars

\* ------------------------------------------------------------------ claims
\* The unit's checkpoint mark: its .done file, or for generate_data the
\* presence of both of its per-unit files.
Marked(u) == IF variant = "generate" THEN already_exists(u) ELSE u \in checkpoints

\* What the variant's extraction yields for the unit.
Extraction(u) ==
    CASE variant = "createPhash" -> extract_hash_vectors(u).recs
      [] variant = "indexador" -> extract_phashes(u).recs
      [] OTHER -> process_video_vectors(u)

\* The unit's records in the persisted fingerprint array and metadata.
InIndex(u) ==
    IF variant = "generate" THEN Range(hashFile[u])
    ELSE {r \in Range(diskIndex) : r[1] = u}

InMeta(u) ==
    IF variant = "generate" THEN Range(metaFile[u])
    ELSE {r \in Range(diskMeta) : r[1] = u}

AllPersisted(u) == Range(Extraction(u)) \subseteq (InIndex(u) \cap InMeta(u))

IndexCount(r) ==
    IF variant = "generate" THEN Count(hashFile[r[1]], r) ELSE Count(diskIndex, r)

MetaCount(r) ==
    IF variant = "generate" THEN Count(metaFile[r[1]], r) ELSE Count(diskMeta, r)

PersistedStore ==
    IF variant = "generate" THEN <<hashFile, metaFile>> ELSE <<diskIndex, diskMeta>>

\* C1: whenever no run is in the middle of a unit (between runs, and after a
\* kill at any step), a unit that has records is marked iff all of its records
\* are in the persisted store: marked implies all present, unmarked implies
\* none present.
C1_MarkedIffPersisted ==
    pc \in Idle =>
        \A u \in Units :
            Extraction(u) # <<>> =>
                /\ Marked(u) => AllPersisted(u)
                /\ ~Marked(u) => InIndex(u) \cup InMeta(u) = {}

\* C2: a step that creates the checkpoint file of a unit starts in a state
\* where the index file and the metadata file already hold the unit's records.
C2_MarkOnlyAfterFlush ==
    [][\A u \in Units :
          (u \notin checkpoints /\ u \in checkpoints') => AllPersisted(u)]_vars

\* C3: over a corpus of units that all decode, with no write error, a run that
\* completes -- whether or not an earlier run was killed -- leaves every
\* record of every unit exactly once in the index and once in the metadata,
\* and has not extracted a unit that was marked when it began.
C3_ResumeGivesSameStore ==
    (/\ pc = "done" /\ ioErrors = 0
     /\ \A u \in Units : kind[u] = "ok") =>
        /\ \A u \in Units : \A r \in Range(Extraction(u)) :
               IndexCount(r) = 1 /\ MetaCount(r) = 1
        /\ extracted \cap doneAtStart = {}

\* C4: a run that began with every unit of the corpus marked extracts no unit
\* and leaves the persisted store as it was when the run began.
C4_RerunIsIdempotent ==
    (runNo > 0 /\ doneAtStart = Units) =>
        /\ extracted = {}
        /\ PersistedStore = storeAtStart

\* C4's case: a second run over a corpus whose units the first run all marked
\* has run to its end.
C4_Witness ==
    /\ runNo = 2 /\ pc = "done" /\ doneAtStart = Units
    /\ \A u \in Units : Extraction(u) # <<>> /\ AllPersisted(u)

\* C5: what a search has loaded is an index and a metadata list of the same
\* size.
C5_ReaderSeesWholeCommit ==
    rdPc = "loaded" => Len(rdIndex) = Len(rdMeta)

\* C6: a unit whose processing or commit raised in this run and that is left
\* unmarked has no record in the in-memory lists nor in the persisted store.
C6_FailedUnitLeavesNoRecord ==
    \A u \in failedUnits :
        ~Marked(u) =>
            /\ InIndex(u) \cup InMeta(u) = {}
            /\ \A r \in Range(index) \cup Range(metadata_all)
                        \cup Range(vectors_all) : r[1] # u

\* C7: a unit that does not open, has zero duration or matches no naming
\* pattern never has a record in the store and never carries a mark.
C7_UnusableUnitSkipped ==
    \A u \in Units :
        kind[u] \in {"noopen", "zerodur", "nopattern"} =>
            /\ ~Marked(u)
            /\ InIndex(u) \cup InMeta(u) = {}

\* C8: when a run that was never killed has ended, every unit that decodes and
\* did not itself fail in the run is committed and marked.
C8_FailingUnitDoesNotBlock ==
    (pc \in {"done", "aborted"} /\ ~interrupted) =>
        \A u \in Units :
            (kind[u] = "ok" /\ u \notin failedUnits) =>
                Marked(u) /\ AllPersisted(u)

\* C9: a marked unit with one frame that fails to decode has every other
\* sample point in the store, those after the failed frame included.
C9_FrameFailureSkipsOnlyTheFrame ==
    \A u \in Units :
        (Marked(u) /\ kind[u] \in {"bad1", "bad2"}) =>
            GoodFrames(u) \subseteq (InIndex(u) \cap InMeta(u))

\* C10: an id (a position of the store) that names a record keeps naming that
\* record in every later state of the store, across ingestion and merge runs.
C10_IdsNeverReassigned ==
    [][/\ \A i \in DOMAIN metadataPkl \cap DOMAIN metadataPkl' :
              metadataPkl'[i] = metadataPkl[i]
       /\ \A i \in DOMAIN phashes \cap DOMAIN phashes' : phashes'[i] = phashes[i]
       /\ \A i \in DOMAIN diskMeta \cap DOMAIN diskMeta' : diskMeta'[i] = diskMeta[i]
       /\ \A i \in DOMAIN diskIndex \cap DOMAIN diskIndex' :
              diskIndex'[i] = diskIndex[i]]_vars
\* The run went past u without reading it: the loop of createPhash or
\* indexador took the `continue` of the is_processed test, the worker of
\* generate_data returned at the exists test.
Skipped(u) ==
    IF variant = "generate"
    THEN wpc[u] \in {"finished", "collected"} /\ u \notin extracted
         /\ kind[u] # "nopattern"
    ELSE pc \in {"loop", "write_index", "write_meta", "mark", "done"}
         /\ u \notin Range(todo) /\ u \notin extracted

\* C11: checkpoint keys are collision-resistant: distinct units under the
\* root never share a checkpoint key or a per-unit file name, so a run skips
\* a unit only when that unit itself was done when the run began.
C11_NoUnitSkippedForAnother ==
    \A u \in Units : Skipped(u) => u \in doneAtStart

\* The worker of u passed the exists test of line 105 in this run and has
\* written a per-unit file (lines 168-171).
WorkerWrote(u) ==
    /\ variant = "generate" /\ u \in extracted
    /\ process_video_vectors(u) # <<>>
    /\ wpc[u] \in {"saved_hash", "finished", "collected"}

\* C12: in a parallel ingestion only the orchestrator writes; the workers
\* share nothing and never touch the store, so no two workers of a run pass
\* the exists test and write the same output files.
C12_NoTwoWorkersWriteOneFile ==
    \A u, v \in Units :
        (u # v /\ Key(u) = Key(v)) => ~(WorkerWrote(u) /\ WorkerWrote(v))

\* C18: a unit of D whole seconds, all frames readable, yields at any frame
\* rate exactly 3 * D records: for every second 0..D-1 one record for each
\* of start, middle and end.
C18_ThreeRecordsPerSecond ==
    smPc = "done" =>
        /\ Len(records) = 3 * (total_frames \div fps)
        /\ \A sec \in 0..((total_frames \div fps) - 1) :
              \A i \in DOMAIN FRAME_POSITIONS :
                  Count(records, <<sec, FRAME_POSITIONS[i]>>) = 1

\* The ids of the vectors of the index
IndexIds == {api_index.entries[i][1] : i \in DOMAIN api_index.entries}

\* C13: the load of the store fails whenever the number of fingerprints
\* and the set of metadata ids diverge: no store is loaded, and no query
\* answered, in which a fingerprint has no metadata entry or a metadata id
\* no fingerprint.
C13_LoadRefusesDivergentStore ==
    (ldPc = "loaded" \/ results.status = "ok") =>
        /\ Len(HashesFile) = Len(MetadataFile)
        /\ IndexIds = DOMAIN MetadataFile

\* The last request was answered with results of the index as it is now.
Answered == qPc = "idle" /\ results.status = "ok" /\ qcur # <<>>

\* the distance of the query answered last to the vector of entry e
QueryDistance(e) == Hamming(pix[e[2]], QueryVector(qcur[1]))

\* the results that name a stored record
RealItems == {i \in DOMAIN results.items : results.items[i].id # NO_ID}

\* C14: for every query and k the results come in ascending order of
\* Hamming distance, and results of equal distance in ascending order of id.
C14_AscendingDistanceThenId ==
    (Answered /\ app \in {"main", "service"}) =>
        \A i, j \in RealItems :
            i < j =>
                \/ results.items[i].distance < results.items[j].distance
                \/ /\ results.items[i].distance = results.items[j].distance
                   /\ results.items[i].id < results.items[j].id

\* C15: with k greater than the number of stored fingerprints the search
\* returns as many results as there are stored fingerprints, each a stored
\* record: no placeholder id, no record repeated or put for another.
C15_NoMoreResultsThanRecords ==
    (Answered /\ qcur[2] > Len(api_index.entries)) =>
        /\ Len(results.items) = Len(api_index.entries)
        /\ \A i, j \in DOMAIN results.items :
              i # j => results.items[i].metadata # results.items[j].metadata
        /\ app \in {"main", "service"} =>
              \A i \in DOMAIN results.items : results.items[i].id \in IndexIds

\* C16: when the best candidate is less similar than min_similarity, the
\* query returns an empty result list.
C16_NothingBelowMinSimilarity ==
    (/\ Answered
     /\ api_index.entries # <<>>
     /\ \A i \in DOMAIN api_index.entries :
           100 * similarity_pct(QueryDistance(api_index.entries[i]))
               < MINIMUM_SIMILARITY * HASH_BITS)
    => results.items = <<>>

\* C17: a query with the very frame a record r of the store was made from
\* returns r first, with distance 0 and similarity 100.
C17_IdenticalFrameComesFirst ==
    \A i \in DOMAIN api_index.entries :
        (Answered /\ qcur[1] = api_index.entries[i][2]) =>
            /\ results.items # <<>>
            /\ IF app = "searchPhash"
               THEN /\ results.items[1].metadata = MetaOf(qcur[1])
                    /\ results.items[1].similarity = similarity_pct(0)
               ELSE /\ results.items[1].id = api_index.entries[i][1]
                    /\ results.items[1].distance = 0
                    /\ results.items[1].similarity_percentage = similarity_pct(0)

\* C19: a query only reads the snapshot: after any requests the metadata
\* map and the index are what the load made of the store.
C19_QueriesLeaveSnapshotAlone ==
    ldPc = "loaded" =>
        /\ api_metadata.keys = "id"
        /\ api_metadata.d = LoadedMetadata.d
        /\ api_index = BuiltIndex

\* The last request has been answered.
Replied == qPc = "idle" /\ loop = "free" /\ results # NoResponse /\ upload # "none"

\* C21: a search request that arrives before the index is loaded is
\* answered as service unavailable (503): no generic server error, no
\* results.
C21_NotReadyIsServiceUnavailable ==
    (Replied /\ upload = "image" /\ ldPc # "loaded" /\ app # "searchPhash") =>
        /\ status_code(results) = 503
        /\ results.items = <<>>

\* C22: an upload that cannot be decoded as an image or that fails
\* validation is answered with a client error (4xx); a server error (5xx)
\* answers internal failures only.
C22_BadUploadIsClientError ==
    (Replied /\ upload # "image" /\ app # "searchPhash") =>
        status_code(results) \in 400..499

\* C23: for every pair of fingerprints a search compares, the distance d
\* reported is within 0..64, the similarity is 100 * (64 - d) / 64 and so
\* within 0..100, and the similarity decreases strictly as d grows.
C23_DistanceAndSimilarityInRange ==
    (outcome.op = "search" /\ outcome.status = "ok") =>
        /\ outcome.dist \in 0..HASH_BITS
        /\ outcome.similarity_x64 = 100 * (HASH_BITS - outcome.dist)
        /\ outcome.similarity_x64 \in 0..(100 * HASH_BITS)
        /\ \A d \in 0..HASH_BITS : similarity_x64(d) > similarity_x64(d + 1)

\* C26: a distance is computed over the bits of one fingerprint family,
\* and no store built by one ingestion script with its vector layout is
\* extended or queried by a program of another layout.
C26_OneFamilyPerDistance ==
    outcome.status = "ok" =>
        /\ outcome.op = "search" => Cardinality(outcome.families) = 1
        /\ HASH_BITS * Cardinality(outcome.families) = IndexD(variant)

\* C24: the Hamming distance computed of two fingerprints of one length is
\* the number of bit positions in which they differ.
C24_HammingCountsBits ==
    found.success = "yes" =>
        found.distance = BitDifference(search_hashes, database[found.position])

\* C27: the search is exact: the first result is a stored fingerprint at
\* the least distance of the query among all stored ones; no closer frame
\* is missed for a farther one scanned before it.
C27_FirstResultIsNearest ==
    found.success = "yes" =>
        \A i \in DOMAIN database :
            found.distance <= hamming_distance(search_hashes, database[i])

\* C25: ingestion and query apply the same normalization to a frame (the
\* same resize rule, the same order of colour conversion), so the
\* fingerprint of a frame at a query is its fingerprint at ingestion.
C25_SameNormalizationBothSides ==
    (Answered /\ app \in {"main", "service"}) =>
        /\ query_normalization(qcur[1]) = ingest_normalization(qcur[1])
        /\ QueryVector(qcur[1]) = pix[qcur[1]]

\* A merge has been run to its end.
Merged == variant = "generate" /\ mpc = "idle" /\ merges > 0

\* C28: after the merge the consolidated store has as many metadata
\* entries as fingerprints, under the ids 0..n-1, and metadata entry i is
\* the provenance record of the fingerprint at position i, so that the
\* index built at startup maps a hit to the metadata of its fingerprint.
C28_MergedMetadataMatchesFingerprints ==
    Merged =>
        /\ Len(phashes) = Len(metadataPkl)
        /\ \A i \in DOMAIN phashes : metadataPkl[i] = phashes[i]

\* C29: extract_frames_from_video returns success True only if its
\* extraction was appended to the JSON database; when reading or writing
\* the file fails the call reports failure.
C29_SuccessMeansAppended ==
    \A c \in Callers : returned[c] = "success" => appended[c]

\* C30: after any interleaving of two calls that both complete, the
\* database holds every extraction stored before and both new ones.
C30_NoExtractionLost ==
    (/\ json_errors = 0
     /\ \A c \in Callers : epc[c] = "done" /\ returned[c] = "success")
    => /\ json_file.state = "whole"
       /\ Range(stored_before) \cup Callers \subseteq Range(json_file.extractions)

====
